---- MODULE Spec2Model ----
(***************************************************************************)
(* dataselect.c - Mini-SEED data selection.                                *)
(*                                                                         *)
(* A model of the pipeline of main(): readfiles() builds the MSTraceGroup  *)
(* and one RecordMap per MSTrace, processtraces() sorts the group, prunes  *)
(* it with prunetraces()/trimtraces() and writes the remaining records     *)
(* with writetraces().  Times are hptime_t ticks (HPTMODULUS per second).  *)
(***************************************************************************)
EXTENDS Integers, Sequences, FiniteSets, TLC

(***************************************************************************)
(* Program constants.                                                      *)
(***************************************************************************)
\* libmseed: ticks per second of hptime_t.
HPTMODULUS == 1000000

\* libmseed: the error/unset value of the time window globals.  It only has to
\* differ from every time of the model.
HPTERROR == -1

\* static double timetol = -1.0: use half a sample period.
timetol == -1

\* sizeof(recordbuf)
RecordBufSize == 16384

(***************************************************************************)
(* Bounds of the model.                                                    *)
(***************************************************************************)
\* Number of input files in the file list.
NumFiles == 2

\* Records delivered by ms_readmsr() over all files.
MaxRecs == 3

\* Record start times are BaseSeconds seconds plus 0..MaxStart sample periods.
MaxStart == 2

BaseSeconds == 57

\* Samples per record are 1..MaxCnt.
MaxCnt == 3

\* Nominal sample rate (Hz) and record length (bytes) of every input record.
SampRate == 1

RecLen == 512

\* Sample rate (Hz) of records whose samples are half a second apart.
FastRate == 2

\* The length of a record too large for the record buffer.
BigRecLen == 32768

\* Samples of a record long enough to cross two minute boundaries.
LongCnt == 64

\* The clones of one record the model follows the splitter for.
MaxClones == 3

Qualities == {"D", "R"}

AllQualities == {"Q", "D", "R"}

\* Source names (network, station, location, channel), numbered in strcmp order.
Channels == {1}

PruneModes == {"0", "r", "s"}

(***************************************************************************)
(* Time helpers.                                                           *)
(***************************************************************************)
llabs(x) == IF x < 0 THEN -x ELSE x

\* hpdelta = ( samprate ) ? (hptime_t) (HPTMODULUS / samprate) : 0
HpDelta(samprate) == IF samprate # 0 THEN HPTMODULUS \div samprate ELSE 0

\* hptimetol = ( timetol == -1 ) ? (hpdelta / 2) : (hptime_t) (HPTMODULUS * timetol)
HpTimeTol(hpdelta) == IF timetol = -1 THEN hpdelta \div 2 ELSE HPTMODULUS * timetol

\* The start time of an input record on the model's time grid.
TimeOf(g) == BaseSeconds * HPTMODULUS + g * HpDelta(SampRate)

\* msr_endtime(): the time of the last sample.
msr_endtime(m) ==
    IF m.samprate > 0 /\ m.samplecnt > 0
      THEN m.starttime + (m.samplecnt - 1) * HpDelta(m.samprate)
      ELSE m.starttime

\* The records ms_readmsr() can deliver, with the qualities quals.
MSRecordsOf(quals) ==
    [ chan : Channels, samprate : {SampRate}, dataquality : quals,
      starttime : {TimeOf(g) : g \in 0..MaxStart}, samplecnt : 1..MaxCnt,
      reclen : {RecLen} ]

MSRecords == MSRecordsOf(Qualities)

MSRecordsQ == MSRecordsOf(AllQualities)

\* Records of one quality, among them one that spans two minute boundaries.
MSRecordsSplit ==
    [ chan : Channels, samprate : {SampRate}, dataquality : {"D"},
      starttime : {TimeOf(g) : g \in 0..MaxStart}, samplecnt : (1..MaxCnt) \cup {LongCnt},
      reclen : {RecLen} ]

\* Records of both qualities, of one sample or of MaxCnt samples.
MSRecordsRerun ==
    [ chan : Channels, samprate : {SampRate}, dataquality : Qualities,
      starttime : {TimeOf(g) : g \in 0..MaxStart}, samplecnt : {1, MaxCnt},
      reclen : {RecLen} ]

\* Records of one quality around time 0 of the epoch: they start 2 s, 1 s
\* and 0 s before it.
MSRecordsEpoch ==
    [ chan : Channels, samprate : {SampRate}, dataquality : {"D"},
      starttime : {TimeOf(g) - (BaseSeconds + MaxStart) * HPTMODULUS : g \in 0..MaxStart},
      samplecnt : 1..MaxCnt, reclen : {RecLen} ]

\* Records of one quality, among them records without samples: log and
\* header-only records, which have a start time and no span.
MSRecordsZero ==
    [ chan : Channels, samprate : {SampRate}, dataquality : {"D"},
      starttime : {TimeOf(g) : g \in 0..MaxStart}, samplecnt : 0..MaxCnt,
      reclen : {RecLen} ]

\* Records of both qualities at FastRate: they start on a grid of half
\* seconds and span up to one second.
MSRecordsRate ==
    [ chan : Channels, samprate : {FastRate}, dataquality : Qualities,
      starttime : {BaseSeconds * HPTMODULUS + g * HpDelta(FastRate) : g \in 0..MaxStart},
      samplecnt : 1..MaxCnt, reclen : {RecLen} ]

\* Records of one quality, of the two record lengths.
MSRecordsFiles ==
    [ chan : Channels, samprate : {SampRate}, dataquality : {"D"},
      starttime : {TimeOf(g) : g \in 0..MaxStart}, samplecnt : {1, MaxCnt},
      reclen : {RecLen, BigRecLen} ]

\* MS_ISRATETOLERABLE(A,B): ms_dabs (1.0 - (A / B)) < 0.0001
MS_ISRATETOLERABLE(a, b) == a = b

VARIABLES
    prunedata,    \* 0, 'r' or 's'
    bestquality,  \* flag: use the Q, D, R quality when pruning
    starttime,    \* limit to records after starttime, or HPTERROR
    endtime,      \* limit to records before endtime, or HPTERROR
    pc,           \* position of main(): the routine that runs next
    filelist,     \* the Filelink entries, in command line order
    flp,          \* readfiles(): the file being read (index into filelist)
    nread,        \* records delivered by ms_readmsr() so far
    msr,          \* readfiles(): the record ms_readmsr() delivered last, << >> if none
    skipped,      \* readfiles(): why that record was skipped, "" if it was mapped
    records,      \* every Record allocated, by allocation order
    fpos,         \* readfiles(): file position of the next record of the file
    mstg,         \* the MSTraceGroup: a sequence of MSTrace
    mst,          \* loop position of prunetraces()/writetraces(): trace index
    imst,         \* prunetraces(): inner trace index
    rec,          \* writetraces(): position in the RecordMap of trace mst
    priority,     \* prunetraces(): the local variable priority
    trimcall,     \* the arguments <<lptrace, hptrace>> of the last trimtraces() call
    stopflag,     \* writetraces(): stopflag
    unpackfailed, \* writetraces(): the Records trimrecord() failed to unpack
    written,      \* Record indexes written out, in order
    packfailed,   \* writetraces(): the Records msr_pack() did not pack in trimrecord()
    splitboundary, \* split records on minute ("m") boundaries, "0" if not
    replaceinput, \* flag: replace input files
    nobackups,    \* flag: remove re-named original files when done with them
    outputfile,   \* flag: a single output file is given
    renamed,      \* the files readfiles() has renamed to <name>.orig
    unlinked,     \* the file names writetraces() has removed: << file, name >>
    sink,         \* the records written out, as they are in the record buffer
    run,          \* which run of the program this is
    firstrun      \* what the first run read and wrote, << >> during it

vars == << prunedata, bestquality, starttime, endtime, pc, filelist, flp, nread,
           msr, skipped, records, fpos, mstg, mst, imst, rec, priority, trimcall,
           stopflag, unpackfailed, written, packfailed, splitboundary, replaceinput, nobackups,
           outputfile, renamed, unlinked, sink, run, firstrun >>

config == << prunedata, bestquality, starttime, endtime >>

options == << splitboundary, replaceinput, nobackups, outputfile >>

(***************************************************************************)
(* addfile(): a new Filelink.                                              *)
(***************************************************************************)
NewFilelink ==
    [ infp |-> FALSE, outfp |-> FALSE,
      reordercount |-> 0, recsplitcount |-> 0, recrmcount |-> 0,
      rectrimcount |-> 0, byteswritten |-> 0 ]

\* The values the options -ts and -te can leave in starttime and endtime.
WindowTimes == {HPTERROR, TimeOf(1)}

\* The state main() starts readfiles() in, whatever the options.
InitFiles ==
    /\ pc = "readfiles"
    /\ filelist = [f \in 1..NumFiles |-> NewFilelink]
    /\ flp = 1
    /\ nread = 0
    /\ msr = << >>
    /\ skipped = ""
    /\ records = << >>
    /\ fpos = 0
    /\ mstg = << >>
    /\ mst = 0
    /\ imst = 0
    /\ rec = 0
    /\ priority = 0
    /\ trimcall = << >>
    /\ stopflag = FALSE
    /\ unpackfailed = {}
    /\ written = << >>
    /\ packfailed = {}
    /\ renamed = {}
    /\ unlinked = {}
    /\ sink = << >>
    /\ run = "first"
    /\ firstrun = << >>

\* processparam(): no -Sd, -Sh, -Sm, no -R, no -nb and no -o.
NoOptions ==
    /\ splitboundary = "0"
    /\ replaceinput = FALSE
    /\ nobackups = FALSE
    /\ outputfile = FALSE

\* processparam(): pruning (-Pr, -Ps), with or without -E, no time window.
Init ==
    /\ prunedata \in PruneModes
    /\ bestquality \in BOOLEAN
    /\ starttime = HPTERROR
    /\ endtime = HPTERROR
    /\ NoOptions
    /\ InitFiles

\* processparam(): a time window (-ts, -te, or both) and pruning.
InitWindow ==
    /\ prunedata \in {"r", "s"}
    /\ bestquality = TRUE
    /\ starttime \in WindowTimes
    /\ endtime \in WindowTimes
    /\ starttime # HPTERROR \/ endtime # HPTERROR
    /\ NoOptions
    /\ InitFiles

\* processparam(): splitting on minute boundaries (-Sm) into a single output
\* file (-o), no pruning.
InitSplit ==
    /\ prunedata = "0"
    /\ bestquality = TRUE
    /\ starttime = HPTERROR
    /\ endtime = HPTERROR
    /\ splitboundary = "m"
    /\ replaceinput = FALSE
    /\ nobackups = FALSE
    /\ outputfile = TRUE
    /\ InitFiles

\* processparam(): any of -R, -nb and -o, no pruning and no splitting.
InitReplace ==
    /\ prunedata = "0"
    /\ bestquality = TRUE
    /\ starttime = HPTERROR
    /\ endtime = HPTERROR
    /\ splitboundary = "0"
    /\ replaceinput \in BOOLEAN
    /\ nobackups \in BOOLEAN
    /\ outputfile \in BOOLEAN
    /\ InitFiles

\* processparam(): no option but the input files.
InitZero ==
    /\ prunedata = "0"
    /\ bestquality = TRUE
    /\ starttime = HPTERROR
    /\ endtime = HPTERROR
    /\ NoOptions
    /\ InitFiles

\* processparam(): pruning at the sample level (-Ps) by quality.
InitRate ==
    /\ prunedata = "s"
    /\ bestquality = TRUE
    /\ starttime = HPTERROR
    /\ endtime = HPTERROR
    /\ NoOptions
    /\ InitFiles

\* processparam(): pruning by quality, no time window.
InitQuality ==
    /\ prunedata \in {"r", "s"}
    /\ bestquality = TRUE
    /\ starttime = HPTERROR
    /\ endtime = HPTERROR
    /\ NoOptions
    /\ InitFiles

(***************************************************************************)
(* libmseed: the trace group.  An MSTrace is a record                      *)
(*   [chan, samprate, dataquality, starttime, endtime, private]            *)
(* where private is the RecordMap: the Record indexes from first to last   *)
(* (the empty sequence is the null pointer).                               *)
(***************************************************************************)
Min(S) == CHOOSE x \in S : \A y \in S : x <= y

\* mst_findadjacent(): whether the record fits the end (1) or the beginning
\* (2) of the trace within the time tolerance, 0 if neither.
AdjacentWhence(t, m) ==
    LET delta   == HpDelta(m.samprate)
        tol     == HpTimeTol(delta)
        postgap == (m.starttime - t.endtime) - delta
        pregap  == (t.starttime - msr_endtime(m)) - delta
    IN  IF llabs(postgap) <= tol THEN 1
        ELSE IF llabs(pregap) <= tol THEN 2
        ELSE 0

\* mst_findadjacent(): the first trace of the group with the same source name,
\* a tolerable sample rate, the same quality (if asked for) and adjacent in
\* time; 0 if there is none.
mst_findadjacent(g, m, dq) ==
    LET fits(i) == /\ AdjacentWhence(g[i], m) # 0
                   /\ MS_ISRATETOLERABLE(m.samprate, g[i].samprate)
                   /\ (dq # "0" => dq = g[i].dataquality)
                   /\ g[i].chan = m.chan
        found   == {i \in 1..Len(g) : fits(i)}
    IN  IF found = {} THEN 0 ELSE Min(found)

\* mst_addmsrtogroup(): extend the adjacent trace, or append a new trace to
\* the group.  Returns the group and the index of the trace.
mst_addmsrtogroup(g, m, dataquality) ==
    LET dq == IF dataquality THEN m.dataquality ELSE "0"
        i  == mst_findadjacent(g, m, dq)
    IN  IF i # 0
          THEN IF m.samplecnt <= 0 \/ m.samprate <= 0
                 THEN [mstg |-> g, mst |-> i]
               ELSE IF AdjacentWhence(g[i], m) = 1
                 THEN [mstg |-> [g EXCEPT ![i].endtime = msr_endtime(m)], mst |-> i]
               ELSE [mstg |-> [g EXCEPT ![i].starttime = m.starttime], mst |-> i]
          ELSE [mstg |-> Append(g, [chan |-> m.chan, samprate |-> m.samprate,
                                    dataquality |-> dq,
                                    starttime |-> m.starttime,
                                    endtime |-> msr_endtime(m),
                                    private |-> << >>]),
                mst |-> Len(g) + 1]

\* mst_groupsort(): whether two neighbouring traces are swapped.
SortSwap(a, b) ==
    \/ a.chan > b.chan
    \/ a.chan = b.chan /\ ~ MS_ISRATETOLERABLE(a.samprate, b.samprate)
                       /\ a.samprate > b.samprate
    \/ a.chan = b.chan /\ a.starttime > b.starttime
    \/ a.chan = b.chan /\ a.starttime = b.starttime /\ a.endtime < b.endtime

RECURSIVE SortInsert(_, _)
\* One pass of the exchange sort of mst_groupsort() for the trace t: t sinks
\* below every trace it does not have to be swapped with.
SortInsert(g, t) ==
    IF g = << >> THEN << t >>
    ELSE IF SortSwap(g[Len(g)], t)
      THEN Append(SortInsert(SubSeq(g, 1, Len(g) - 1), t), g[Len(g)])
      ELSE Append(g, t)

RECURSIVE SortPrefix(_, _)
SortPrefix(g, n) ==
    IF n = 0 THEN << >> ELSE SortInsert(SortPrefix(g, n - 1), g[n])

\* mst_groupsort(): sort by source name, sample rate, start time and
\* descending end time; traces that compare equal keep their order.
mst_groupsort(g) == SortPrefix(g, Len(g))

(***************************************************************************)
(* readfiles(): one iteration of the loop over the records of a file.      *)
(***************************************************************************)
\* The record fails the start time criteria (line 1409).
SkipStarttime(recstarttime) ==
    (starttime # HPTERROR) /\ (starttime < recstarttime)

\* The record fails the end time criteria (line 1417).
SkipEndtime(recendtime) ==
    (endtime # HPTERROR) /\ (recendtime > endtime)

\* A fit that takes every record of an existing MSTrace for its beginning.
WhenceBeginning(t, recstarttime, recendtime) ==
    IF t.private = << >> THEN 0 ELSE 2

\* Where the record fit the MSTrace: 0 = new MSTrace, 1 = end, 2 = beginning,
\* -1 = could not be determined (the record is not mapped).
Whence(t, recstarttime, recendtime) ==
    IF t.private = << >> THEN 0
    ELSE IF t.endtime = recendtime THEN 1
    ELSE IF t.starttime = recstarttime THEN 2
    ELSE IF recendtime = recstarttime
      THEN IF llabs(recstarttime - t.endtime) < llabs(recstarttime - t.starttime)
             THEN 1 ELSE 2
    ELSE -1

\* Create and populate a new Record structure.
NewRecord(f, offset, m) ==
    [ flp |-> f, offset |-> offset, reclen |-> m.reclen,
      starttime |-> m.starttime, endtime |-> msr_endtime(m),
      quality |-> m.dataquality, newstart |-> 0, newend |-> 0 ]

\* If pruning at the sample level trim right at the start/end times
\* (lines 1502-1525): the new times are only replaced when already set.
WindowTrim(r) ==
    LET r1 == IF /\ starttime # HPTERROR
                 /\ starttime > r.starttime /\ starttime < r.endtime
                 /\ r.newstart # 0 /\ r.newstart < starttime
                THEN [r EXCEPT !.newstart = starttime] ELSE r
        r2 == IF /\ endtime # HPTERROR
                 /\ endtime > r1.starttime /\ endtime < r1.endtime
                 /\ r1.newend # 0 /\ r1.newend > endtime
                THEN [r1 EXCEPT !.newend = endtime] ELSE r1
    IN  IF prunedata = "s" THEN r2 ELSE r

\* The length in seconds of the split unit: day, hour or minute.
SplitSeconds(c) == CASE c = "d" -> 86400 [] c = "h" -> 3600 [] OTHER -> 60

\* Determine next split boundary (lines 1537-1558): the start of the day,
\* hour or minute after the one the time is in.
NextBoundary(eff) ==
    LET unit == SplitSeconds(splitboundary) * HPTMODULUS
    IN  ((eff \div unit) + 1) * unit

RECURSIVE SplitRecord(_, _)
\* Create extra Record structures if splitting on a time boundary
\* (lines 1535-1591).  chain is the chain of Records built so far, its last
\* Record is the current one.  The loop is followed for MaxClones clones.
SplitRecord(chain, hpdelta) ==
    LET r        == chain[Len(chain)]
        boundary == NextBoundary(IF r.newstart # 0 THEN r.newstart ELSE r.starttime)
    IN  IF r.endtime > boundary /\ Len(chain) <= MaxClones
          THEN SplitRecord(Append([chain EXCEPT ![Len(chain)].newend = boundary - hpdelta],
                                  [r EXCEPT !.newstart = boundary]),
                           hpdelta)
          ELSE chain

\* The loop of the splitter has come to its break (lines 1586-1589): the end
\* time of the current Record is not beyond the next boundary.
SplitEnds(chain) ==
    LET r == chain[Len(chain)]
    IN  ~ (r.endtime > NextBoundary(IF r.newstart # 0 THEN r.newstart ELSE r.starttime))

\* Add '.orig' suffix to input file if it will be replaced (lines 1366-1382).
RenameInput(f) == IF replaceinput THEN renamed \cup {f} ELSE renamed

RECURSIVE MergeRecords(_, _, _, _)
\* Add all Record entries of the chain into the RecordMap of the trace
\* (lines 1596-1645).  st is [private, reordercount].
MergeRecords(st, chain, k, whence) ==
    IF k > Len(chain) THEN st
    ELSE MergeRecords(
           IF whence = 1
             THEN [st EXCEPT !.private = Append(st.private, chain[k])]
           ELSE IF whence = 2
             THEN [st EXCEPT !.private = << chain[k] >> \o st.private,
                             !.reordercount = st.reordercount + 1]
           ELSE [st EXCEPT !.private = << chain[k] >>],
           chain, k + 1, whence)

\* If the loop of the splitter does not come to its break readfiles() stays
\* in it: pc is "splitting" from then on.
ReadRecord(m) ==
    LET recstarttime == m.starttime
        recendtime   == msr_endtime(m)
        added        == mst_addmsrtogroup(mstg, m, bestquality)
        t            == added.mstg[added.mst]
        whence       == Whence(t, recstarttime, recendtime)
        newrec       == WindowTrim(NewRecord(flp, fpos, m))
        newrecs      == IF splitboundary # "0"
                          THEN SplitRecord(<< newrec >>, HpDelta(m.samprate))
                          ELSE << newrec >>
        endless      == splitboundary # "0" /\ ~ SplitEnds(newrecs)
        chain        == [k \in 1..Len(newrecs) |-> Len(records) + k]
        merged       == MergeRecords([private |-> t.private,
                                      reordercount |-> filelist[flp].reordercount],
                                     chain, 1, whence)
    IN  /\ pc = "readfiles"
        /\ flp <= NumFiles
        /\ nread < MaxRecs
        /\ nread' = nread + 1
        /\ msr' = m
        /\ fpos' = fpos + m.reclen
        /\ renamed' = RenameInput(flp)
        /\ IF SkipStarttime(recstarttime)
             THEN /\ skipped' = "starttime"
                  /\ UNCHANGED << mstg, records, filelist >>
           ELSE IF SkipEndtime(recendtime)
             THEN /\ skipped' = "endtime"
                  /\ UNCHANGED << mstg, records, filelist >>
           ELSE IF whence = -1
             THEN /\ skipped' = "whence"
                  /\ mstg' = added.mstg
                  /\ UNCHANGED << records, filelist >>
           ELSE IF endless
             THEN /\ skipped' = "split"
                  /\ mstg' = added.mstg
                  /\ UNCHANGED << records, filelist >>
           ELSE /\ skipped' = ""
                /\ mstg' = [added.mstg EXCEPT ![added.mst].private = merged.private]
                /\ records' = records \o newrecs
                /\ filelist' = [filelist EXCEPT
                                  ![flp].reordercount = merged.reordercount,
                                  ![flp].recsplitcount = @ + (Len(newrecs) - 1)]
        /\ pc' = IF /\ ~ SkipStarttime(recstarttime) /\ ~ SkipEndtime(recendtime)
                    /\ whence # -1 /\ endless
                   THEN "splitting" ELSE pc
        /\ UNCHANGED << config, flp, mst, imst, rec, priority, trimcall, stopflag,
                        unpackfailed, written, packfailed, options, unlinked, sink, run, firstrun >>

\* ms_readmsr() returns MS_ENDOFFILE (or an error): go on with the next file
\* or, after the last file, return to main().
EndOfFile ==
    /\ pc = "readfiles"
    /\ flp <= NumFiles
    /\ flp' = flp + 1
    /\ fpos' = 0
    /\ pc' = IF flp = NumFiles THEN "processtraces" ELSE pc
    /\ renamed' = RenameInput(flp)
    /\ UNCHANGED << config, filelist, nread, msr, skipped, records, mstg, mst, imst,
                    rec, priority, trimcall, stopflag, unpackfailed, written,
                    packfailed, options, unlinked, sink, run, firstrun >>

\* rename() fails on the file that is to be read next: readfiles() returns
\* (lines 1376-1381) and main() goes on with processtraces().
RenameFails ==
    /\ pc = "readfiles"
    /\ flp <= NumFiles
    /\ replaceinput
    /\ fpos = 0
    /\ pc' = "processtraces"
    /\ UNCHANGED << config, filelist, flp, nread, msr, skipped, records, fpos, mstg,
                    mst, imst, rec, priority, trimcall, stopflag, unpackfailed,
                    written, packfailed, options, renamed, unlinked, sink, run, firstrun >>

\* qcompare() with the ranks of D and R exchanged.
qcompareRD(quality1, quality2) ==
    IF quality1 = quality2 THEN 0
    ELSE IF quality1 = "D" /\ (quality2 = "R" \/ quality2 = "Q") THEN 1
    ELSE IF quality1 = "R" /\ quality2 = "Q" THEN 1
    ELSE -1

\* qcompare() without its two tests for the lower quality.
qcompareFirst(quality1, quality2) ==
    IF quality1 = quality2 THEN 0 ELSE -1

(***************************************************************************)
(* qcompare(): -1 = quality1 is greater than quality2, 0 = equal,          *)
(* 1 = quality2 is greater than quality1.                                  *)
(***************************************************************************)
qcompare(quality1, quality2) ==
    IF quality1 = quality2 THEN 0
    ELSE IF quality1 = "R" /\ (quality2 = "D" \/ quality2 = "Q") THEN 1
    ELSE IF quality1 = "D" /\ quality2 = "Q" THEN 1
    ELSE -1

(***************************************************************************)
(* trimtraces(lptrace, hptrace).                                           *)
(***************************************************************************)
\* Effective record start and end times.
EffStart(r) == IF r.newstart # 0 THEN r.newstart ELSE r.starttime

EffEnd(r) == IF r.newend # 0 THEN r.newend ELSE r.endtime

RECURSIVE TimeSegments(_, _, _, _, _)
\* The TimeSegment list of coverage in the HP MSTrace (lines 1162-1209):
\* ts is the list built from the first k-1 Records of the RecordMap map.
TimeSegments(rs, map, k, ts, hpdelta) ==
    IF k > Len(map) THEN ts
    ELSE LET r == rs[map[k]] IN
      IF r.reclen = 0 THEN TimeSegments(rs, map, k + 1, ts, hpdelta)
      ELSE IF \/ ts = << >>
              \/ llabs((ts[Len(ts)].endtime + hpdelta) - EffStart(r)) > HpTimeTol(hpdelta)
        THEN TimeSegments(rs, map, k + 1,
                          Append(ts, [starttime |-> EffStart(r), endtime |-> EffEnd(r)]),
                          hpdelta)
        ELSE TimeSegments(rs, map, k + 1,
                          [ts EXCEPT ![Len(ts)].endtime = EffEnd(r)], hpdelta)

\* Mark the Record if it is completely overlapped by the segment (lines 1224-1240).
MarkRecord(st, tsp) ==
    IF EffStart(st.r) >= tsp.starttime /\ EffEnd(st.r) <= tsp.endtime
      THEN [st EXCEPT !.r.reclen = 0, !.rm = st.rm + 1]
      ELSE st

\* New start/end times set on the bounds of the HP trace themselves, without
\* the sample period.
NewTimesNoDelta(st, eff, hptrace, hpdelta) ==
    IF prunedata = "s" /\ st.r.reclen # 0
      THEN LET s1 == IF eff.s <= hptrace.starttime /\ eff.e >= hptrace.starttime
                       THEN [st EXCEPT !.r.newend = hptrace.starttime,
                                       !.trim = st.trim + 1]
                       ELSE st
           IN  IF eff.s <= hptrace.endtime /\ eff.e >= hptrace.endtime
                 THEN [s1 EXCEPT !.r.newstart = hptrace.endtime,
                                 !.trim = s1.trim + 1]
                 ELSE s1
      ELSE st

\* New start/end times written over the start and end time of the Record.
NewTimesInPlace(st, eff, hptrace, hpdelta) ==
    IF prunedata = "s" /\ st.r.reclen # 0
      THEN LET s1 == IF eff.s <= hptrace.starttime /\ eff.e >= hptrace.starttime
                       THEN [st EXCEPT !.r.endtime = hptrace.starttime - hpdelta,
                                       !.trim = st.trim + 1]
                       ELSE st
           IN  IF eff.s <= hptrace.endtime /\ eff.e >= hptrace.endtime
                 THEN [s1 EXCEPT !.r.starttime = hptrace.endtime + hpdelta,
                                 !.trim = s1.trim + 1]
                 ELSE s1
      ELSE st

\* Determine the new start/end times if pruning at the sample level
\* (lines 1242-1262).  eff holds the effective times of the Record as they
\* were before it was compared to the segment.
NewTimes(st, eff, hptrace, hpdelta) ==
    IF prunedata = "s" /\ st.r.reclen # 0
      THEN LET s1 == IF eff.s <= hptrace.starttime /\ eff.e >= hptrace.starttime
                       THEN [st EXCEPT !.r.newend = hptrace.starttime - hpdelta,
                                       !.trim = st.trim + 1]
                       ELSE st
           IN  IF eff.s <= hptrace.endtime /\ eff.e >= hptrace.endtime
                 THEN [s1 EXCEPT !.r.newstart = hptrace.endtime + hpdelta,
                                 !.trim = s1.trim + 1]
                 ELSE s1
      ELSE st

RECURSIVE TrimRecord(_, _, _, _, _)
\* The inner loop of trimtraces() for one LP Record: compare it to the
\* segments k.. of ts.  st is [r, rm, trim]: the Record and the increments
\* of recrmcount and rectrimcount of its file.
TrimRecord(st, ts, k, hptrace, hpdelta) ==
    IF k > Len(ts) THEN st
    ELSE TrimRecord(NewTimes(MarkRecord(st, ts[k]),
                             [s |-> EffStart(st.r), e |-> EffEnd(st.r)],
                             hptrace, hpdelta),
                    ts, k + 1, hptrace, hpdelta)

RECURSIVE TrimMap(_, _, _, _, _, _)
\* The traversal of the Record chain of the LP MSTrace (lines 1211-1268).
\* st is [records, filelist].
TrimMap(st, map, k, ts, hptrace, hpdelta) ==
    IF k > Len(map) THEN st
    ELSE LET id == map[k]
             t  == TrimRecord([r |-> st.records[id], rm |-> 0, trim |-> 0],
                              ts, 1, hptrace, hpdelta)
             f  == t.r.flp
         IN  TrimMap([records  |-> [st.records EXCEPT ![id] = t.r],
                      filelist |-> [st.filelist EXCEPT
                                      ![f].recrmcount = @ + t.rm,
                                      ![f].rectrimcount = @ + t.trim]],
                     map, k + 1, ts, hptrace, hpdelta)

\* trimtraces(): lp and hp are indexes into the group g.
trimtraces(rs, fl, g, lp, hp) ==
    LET hpdelta == HpDelta(g[hp].samprate)
        ts      == TimeSegments(rs, g[hp].private, 1, << >>, hpdelta)
    IN  TrimMap([records |-> rs, filelist |-> fl], g[lp].private, 1, ts, g[hp], hpdelta)

(***************************************************************************)
(* prunetraces().                                                          *)
(***************************************************************************)
\* Test if the MSTraces overlap (lines 1076-1077).
TracesOverlap(a, b) == a.endtime > b.starttime /\ a.starttime < b.endtime

\* Determine priority (lines 1084-1096): prev is the value the variable
\* priority holds when the pair is reached.
Priority(prev, a, b) ==
    LET p == IF bestquality THEN qcompare(a.dataquality, b.dataquality) ELSE prev
    IN  IF p = 0
          THEN IF (a.endtime - a.starttime) > (b.endtime - b.starttime) THEN -1 ELSE 1
          ELSE p

\* The traces compared after mst and imst: imst = imst->next, and at the end
\* of the chain mst = mst->next and imst = mst->next.  << 0, 0 >> ends the loops.
NextPair(m, i, n) ==
    IF i + 1 <= n THEN << m, i + 1 >>
    ELSE IF m + 2 <= n THEN << m + 1, m + 2 >>
    ELSE << 0, 0 >>

\* processtraces(): sort the group, then prune or write.
ProcessTraces ==
    /\ pc = "processtraces"
    /\ mstg' = mst_groupsort(mstg)
    /\ IF Len(mstg) = 0
         THEN /\ pc' = "done"
              /\ UNCHANGED << mst, imst, rec >>
       ELSE IF prunedata # "0" /\ Len(mstg) >= 2
         THEN /\ pc' = "prunetraces"
              /\ mst' = 1 /\ imst' = 2
              /\ UNCHANGED rec
       ELSE /\ pc' = "writetraces"
            /\ mst' = 1 /\ rec' = 1
            /\ UNCHANGED imst
    /\ UNCHANGED << config, filelist, flp, nread, msr, skipped, records, fpos,
                    priority, trimcall, stopflag, unpackfailed, written,
                    packfailed, options, renamed, unlinked, sink, run, firstrun >>

\* One iteration of the inner loop of prunetraces(): compare mst to imst.
PrunePair ==
    LET a    == mstg[mst]
        b    == mstg[imst]
        p    == Priority(priority, a, b)
        lp   == IF p = 1 THEN mst ELSE imst
        hp   == IF p = 1 THEN imst ELSE mst
        t    == trimtraces(records, filelist, mstg, lp, hp)
        next == NextPair(mst, imst, Len(mstg))
    IN  /\ pc = "prunetraces"
        /\ IF /\ a.chan = b.chan
              /\ MS_ISRATETOLERABLE(a.samprate, b.samprate)
              /\ TracesOverlap(a, b)
             THEN /\ priority' = p
                  /\ trimcall' = << lp, hp >>
                  /\ records' = t.records
                  /\ filelist' = t.filelist
             ELSE UNCHANGED << priority, trimcall, records, filelist >>
        /\ IF next = << 0, 0 >>
             THEN /\ pc' = "writetraces"
                  /\ mst' = 1 /\ rec' = 1
                  /\ UNCHANGED imst
             ELSE /\ mst' = next[1] /\ imst' = next[2]
                  /\ UNCHANGED << pc, rec >>
        /\ UNCHANGED << config, flp, nread, msr, skipped, fpos, mstg, stopflag,
                        unpackfailed, written, packfailed, options, renamed, unlinked, sink,
                        run, firstrun >>

(***************************************************************************)
(* writetraces(): one iteration of the loop over the Records.              *)
(***************************************************************************)
\* An emit loop without the test of the mark.
SkipMarkedNever(r) == FALSE

\* Skip marked records (lines 712-717).
SkipMarked(r) == r.reclen = 0

\* An emit loop without the check of the record buffer.
BufferNeverTooSmall(r) == FALSE

\* Make sure the record buffer is large enough (lines 719-726).
BufferTooSmall(r) == r.reclen > RecordBufSize

\* Trim data from the record if new start or end times are specified (line 758).
NeedsTrim(r) == r.newstart # 0 \/ r.newend # 0

\* An emit loop that leaves the chain of a trace after its first Record.
NextRecordBreak(g, m, k) ==
    IF m < Len(g) THEN << m + 1, 1 >> ELSE << 0, 0 >>

\* rec = rec->next, and at the end of the chain mst = mst->next and
\* rec = recmap->first.  << 0, 0 >> ends the loops.
NextRecord(g, m, k) ==
    IF k < Len(g[m].private) THEN << m, k + 1 >>
    ELSE IF m < Len(g) THEN << m + 1, 1 >>
    ELSE << 0, 0 >>

(***************************************************************************)
(* trimrecord(): what is in the record buffer when it returns 0.  A record *)
(* in the buffer is described by where its bytes were read from (flp,      *)
(* offset, reclen) and by its header (starttime, numsamples, quality).     *)
(***************************************************************************)
\* The number of samples msr_unpack() finds in the record.
NumSamples(r, samprate) ==
    IF HpDelta(samprate) # 0
      THEN ((r.endtime - r.starttime) \div HpDelta(samprate)) + 1
      ELSE 0

\* A read without the lseek() to the offset of the Record: the bytes are
\* those at the beginning of the file.
RecordImageNoSeek(r, samprate) ==
    [ flp |-> r.flp, offset |-> 0, reclen |-> r.reclen,
      starttime |-> r.starttime, numsamples |-> NumSamples(r, samprate),
      quality |-> r.quality ]

\* The record as it was read into the record buffer (lines 747-755).
RecordImage(r, samprate) ==
    [ flp |-> r.flp, offset |-> r.offset, reclen |-> r.reclen,
      starttime |-> r.starttime, numsamples |-> NumSamples(r, samprate),
      quality |-> r.quality ]

\* The division of C: the quotient is truncated toward zero.
TruncDiv(a, b) == IF a >= 0 THEN a \div b ELSE -((-a) \div b)

\* (int) (((diff) / HPTMODULUS) * samprate + 0.5), lines 966 and 986: the
\* division is the one of hptime_t, the conversion truncates toward zero.
TrimSamples(diff, samprate) ==
    LET p == TruncDiv(diff, HPTMODULUS) * samprate
    IN  IF p >= 0 THEN p ELSE p + 1

\* msr_pack() packs nothing, and record_handler() is not called, if it
\* fails (packs is false) or if no sample is left to pack (line 996).
PackFails(r, samprate, packs) ==
    LET t1 == IF r.newstart # 0
                THEN TrimSamples(r.newstart - r.starttime, samprate) ELSE 0
        t2 == IF r.newend # 0
                THEN TrimSamples(r.endtime - r.newend, samprate) ELSE 0
    IN  ~ packs \/ NumSamples(r, samprate) - t1 - t2 <= 0

\* The records the buffer can hold after trimrecord() returned 0: the
\* trimmed record or, if msr_pack() packed nothing, the record as it was
\* read.  memmove() with a negative size or offset (line 975) can leave
\* anything in the buffer.
trimrecord(r, samprate, packs) ==
    LET orig    == RecordImage(r, samprate)
        n       == orig.numsamples
        t1      == IF r.newstart # 0
                     THEN TrimSamples(r.newstart - r.starttime, samprate) ELSE 0
        t2      == IF r.newend # 0
                     THEN TrimSamples(r.endtime - r.newend, samprate) ELSE 0
        trimmed == [orig EXCEPT !.starttime = IF r.newstart # 0 THEN r.newstart ELSE @,
                                !.numsamples = n - t1 - t2]
    IN  IF t1 < 0 \/ t1 > n
          THEN {orig} \cup {[trimmed EXCEPT !.numsamples = k] : k \in 0..n}
        ELSE IF PackFails(r, samprate, packs) THEN {orig}
        ELSE {trimmed}

\* Remove backups if requested (lines 877-880): flp->infilename is the
\* <name>.orig copy if readfiles() renamed the file, else the input file.
Unlink(fl) ==
    IF nobackups /\ ~ outputfile
      THEN {<< f, IF f \in renamed THEN "orig" ELSE "input" >> : f \in DOMAIN fl}
      ELSE {}

\* Close all open input and output files (lines 851-883).
CloseFiles(fl) == [f \in DOMAIN fl |-> [fl[f] EXCEPT !.infp = FALSE, !.outfp = FALSE]]

\* What the C library and the codec can answer for one Record: every call
\* succeeds, a file cannot be opened, sought, read or written, or
\* msr_unpack() fails in trimrecord().
Outcomes == {"ok", "ioerror", "unpackerror"}

\* Without new times trimrecord() is not called.
OutcomesIO == {"ok", "ioerror"}

\* The same and a failure of msr_pack() in trimrecord().
OutcomesPack == Outcomes \cup {"packerror"}

WriteRecord(outcome) ==
    LET id   == mstg[mst].private[rec]
        r    == records[id]
        next == NextRecord(mstg, mst, rec)
        stop == ~ SkipMarked(r) /\ (BufferTooSmall(r) \/ outcome = "ioerror")
        fail == ~ SkipMarked(r) /\ ~ stop /\ NeedsTrim(r) /\ outcome = "unpackerror"
        skip == SkipMarked(r) \/ fail
        fl   == IF SkipMarked(r) \/ stop THEN filelist
                ELSE IF skip THEN [filelist EXCEPT ![r.flp].infp = TRUE]
                ELSE [filelist EXCEPT ![r.flp].infp = TRUE,
                                      ![r.flp].outfp = replaceinput,
                                      ![r.flp].byteswritten = @ + r.reclen]
        imgs == IF NeedsTrim(r)
                  THEN trimrecord(r, mstg[mst].samprate, outcome # "packerror")
                  ELSE {RecordImage(r, mstg[mst].samprate)}
    IN  /\ pc = "writetraces"
        /\ outcome = "unpackerror" => ~ SkipMarked(r) /\ ~ BufferTooSmall(r) /\ NeedsTrim(r)
        /\ outcome = "packerror" => ~ SkipMarked(r) /\ ~ BufferTooSmall(r) /\ NeedsTrim(r)
        /\ outcome = "ioerror" => ~ SkipMarked(r) /\ ~ BufferTooSmall(r)
        /\ stopflag' = stop
        /\ unpackfailed' = IF fail THEN unpackfailed \cup {id} ELSE unpackfailed
        /\ written' = IF stop \/ skip THEN written ELSE Append(written, id)
        /\ packfailed' = IF /\ ~ stop /\ ~ skip /\ NeedsTrim(r)
                             /\ PackFails(r, mstg[mst].samprate, outcome # "packerror")
                            THEN packfailed \cup {id} ELSE packfailed
        /\ IF stop \/ skip
             THEN sink' = sink
             ELSE \E img \in imgs : sink' = Append(sink, img)
        /\ IF stop \/ next = << 0, 0 >>
             THEN /\ pc' = "done"
                  /\ filelist' = CloseFiles(fl)
                  /\ unlinked' = Unlink(fl)
                  /\ UNCHANGED << mst, rec >>
             ELSE /\ filelist' = fl
                  /\ mst' = next[1] /\ rec' = next[2]
                  /\ UNCHANGED << pc, unlinked >>
        /\ UNCHANGED << config, flp, nread, msr, skipped, records, fpos, mstg, imst,
                        priority, trimcall, options, renamed, run, firstrun >>

\* The output file cannot be opened: writetraces() returns before its loops
\* (lines 686-701).
OutputOpenFails ==
    /\ pc = "writetraces"
    /\ outputfile
    /\ mst = 1 /\ rec = 1 /\ written = << >> /\ unpackfailed = {}
    /\ pc' = "done"
    /\ UNCHANGED << config, filelist, flp, nread, msr, skipped, records, fpos, mstg,
                    mst, imst, rec, priority, trimcall, stopflag, unpackfailed,
                    written, packfailed, options, renamed, unlinked, sink, run, firstrun >>

(***************************************************************************)
(* A second run of the program, with the same options, after the first     *)
(* has ended: on the input files of the first run given in the reverse     *)
(* order ("permuted"), or on the output file of the first run ("output").  *)
(***************************************************************************)
\* processparam(): pruning (-Pr, -Ps), with or without -E, a single output
\* file (-o).
InitRerun ==
    /\ prunedata \in {"r", "s"}
    /\ bestquality \in BOOLEAN
    /\ starttime = HPTERROR
    /\ endtime = HPTERROR
    /\ splitboundary = "0"
    /\ replaceinput = FALSE
    /\ nobackups = FALSE
    /\ outputfile = TRUE
    /\ InitFiles

\* The record ms_readmsr() delivers for the bytes of a Record of an input file.
MsrOfRecord(r) ==
    [ chan |-> CHOOSE c \in Channels : TRUE, samprate |-> SampRate,
      dataquality |-> r.quality, starttime |-> r.starttime,
      samplecnt |-> NumSamples(r, SampRate), reclen |-> RecLen ]

\* The record ms_readmsr() delivers for a record that was written out.
MsrOfImage(img) ==
    [ chan |-> CHOOSE c \in Channels : TRUE, samprate |-> SampRate,
      dataquality |-> img.quality, starttime |-> img.starttime,
      samplecnt |-> img.numsamples, reclen |-> img.reclen ]

\* The records of file f of the first run, in the order of the file.
RECURSIVE FileRecords(_, _, _)
FileRecords(rs, f, n) ==
    IF n = 0 THEN << >>
    ELSE IF rs[n].flp = f
      THEN Append(FileRecords(rs, f, n - 1), MsrOfRecord(rs[n]))
    ELSE FileRecords(rs, f, n - 1)

\* The records written out by the first run, in the order of the output file.
OutputRecords(s) == [k \in DOMAIN s |-> MsrOfImage(s[k])]

\* The input files of this run (addfile(), lines 2120-2159): the files of
\* the first run from the last to the first, or its output file alone.
InputFiles ==
    IF run = "permuted"
      THEN [f \in 1..NumFiles |->
              FileRecords(firstrun.records, NumFiles + 1 - f, Len(firstrun.records))]
      ELSE [f \in 1..NumFiles |->
              IF f = 1 THEN OutputRecords(firstrun.sink) ELSE << >>]

\* The number of records readfiles() has read from the file it is reading.
FileRead == Cardinality({id \in 1..Len(records) : records[id].flp = flp})

\* main() is started again: the globals are as they are at program start.
Rerun(kind) ==
    /\ pc = "done"
    /\ run = "first"
    /\ run' = kind
    /\ firstrun' = [records |-> IF kind = "permuted" THEN records ELSE << >>,
                     sink |-> sink]
    /\ pc' = "readfiles"
    /\ filelist' = [f \in 1..NumFiles |-> NewFilelink]
    /\ flp' = 1
    /\ nread' = 0
    /\ msr' = << >>
    /\ skipped' = ""
    /\ records' = << >>
    /\ fpos' = 0
    /\ mstg' = << >>
    /\ mst' = 0
    /\ imst' = 0
    /\ rec' = 0
    /\ priority' = 0
    /\ trimcall' = << >>
    /\ stopflag' = FALSE
    /\ unpackfailed' = {}
    /\ written' = << >>
    /\ packfailed' = {}
    /\ renamed' = {}
    /\ unlinked' = {}
    /\ sink' = << >>
    /\ UNCHANGED << config, options >>

\* The first run reads any record.
ReadFirst ==
    /\ run = "first"
    /\ \E m \in MSRecordsRerun : ReadRecord(m)

\* The first run comes to the end of a file.
EndOfFileFirst ==
    /\ run = "first"
    /\ EndOfFile

\* The second run reads the next record of the file.
ReadAgain ==
    /\ run # "first"
    /\ pc = "readfiles"
    /\ flp <= NumFiles
    /\ FileRead < Len(InputFiles[flp])
    /\ ReadRecord(InputFiles[flp][FileRead + 1])

\* The second run comes to the end of a file.
EndOfFileAgain ==
    /\ run # "first"
    /\ pc = "readfiles"
    /\ flp <= NumFiles
    /\ FileRead = Len(InputFiles[flp])
    /\ EndOfFile

\* Two runs of the program in which every call of the C library and of
\* libmseed succeeds.
NextRerun ==
    \/ ReadFirst
    \/ EndOfFileFirst
    \/ ReadAgain
    \/ EndOfFileAgain
    \/ ProcessTraces
    \/ PrunePair
    \/ WriteRecord("ok")
    \/ \E kind \in {"permuted", "output"} : Rerun(kind)

SpecRerun == InitRerun /\ [][NextRerun]_vars

Next ==
    \/ \E m \in MSRecords : ReadRecord(m)
    \/ EndOfFile
    \/ ProcessTraces
    \/ PrunePair
    \/ \E outcome \in Outcomes : WriteRecord(outcome)

\* The same program reading records of every quality.
NextQ ==
    \/ \E m \in MSRecordsQ : ReadRecord(m)
    \/ EndOfFile
    \/ ProcessTraces
    \/ PrunePair
    \/ \E outcome \in Outcomes : WriteRecord(outcome)

\* The program splitting records: without pruning prunetraces() is not called.
NextSplit ==
    \/ \E m \in MSRecordsSplit : ReadRecord(m)
    \/ EndOfFile
    \/ ProcessTraces
    \/ OutputOpenFails
    \/ \E outcome \in OutcomesPack : WriteRecord(outcome)

\* The program splitting records around time 0 of the epoch.
NextEpoch ==
    \/ \E m \in MSRecordsEpoch : ReadRecord(m)
    \/ EndOfFile
    \/ ProcessTraces
    \/ OutputOpenFails
    \/ \E outcome \in OutcomesPack : WriteRecord(outcome)

\* The program reading records with and without samples.
NextZero ==
    \/ \E m \in MSRecordsZero : ReadRecord(m)
    \/ EndOfFile
    \/ ProcessTraces
    \/ \E outcome \in OutcomesIO : WriteRecord(outcome)

\* The program pruning records of FastRate samples per second.
NextRate ==
    \/ \E m \in MSRecordsRate : ReadRecord(m)
    \/ EndOfFile
    \/ ProcessTraces
    \/ PrunePair
    \/ \E outcome \in Outcomes : WriteRecord(outcome)

\* The program replacing its input files or writing a single output file.
NextReplace ==
    \/ \E m \in MSRecordsFiles : ReadRecord(m)
    \/ EndOfFile
    \/ RenameFails
    \/ ProcessTraces
    \/ OutputOpenFails
    \/ \E outcome \in OutcomesIO : WriteRecord(outcome)

Spec == Init /\ [][Next]_vars

SpecReplace == InitReplace /\ [][NextReplace]_vars

SpecSplit == InitSplit /\ [][NextSplit]_vars

SpecEpoch == InitSplit /\ [][NextEpoch]_vars

SpecZero == InitZero /\ [][NextZero]_vars

SpecRate == InitRate /\ [][NextRate]_vars

SpecWindow == InitWindow /\ [][Next]_vars

SpecQuality == InitQuality /\ [][NextQ]_vars

(***************************************************************************)
(* Vocabulary of the properties.                                           *)
(***************************************************************************)
\* The documented order of the qualities: Q > D > R.
QRank(q) == CASE q = "Q" -> 3 [] q = "D" -> 2 [] q = "R" -> 1 [] OTHER -> 0

Range(f) == {f[x] : x \in DOMAIN f}

RecordIds == 1..Len(records)

TraceIds == 1..Len(mstg)

\* The length of the bounding interval of a trace.
TraceLen(t) == t.endtime - t.starttime

\* Pruning has finished.
Pruned == pc \in {"writetraces", "done"}

\* The pair of traces belongs to one channel and their bounds overlap.
Comparable(i, j) ==
    /\ mstg[i].chan = mstg[j].chan
    /\ MS_ISRATETOLERABLE(mstg[i].samprate, mstg[j].samprate)
    /\ mstg[i].endtime > mstg[j].starttime
    /\ mstg[i].starttime < mstg[j].endtime

\* The two traces differ in quality and the quality is looked at.
QualityDecides(i, j) ==
    bestquality /\ QRank(mstg[i].dataquality) # QRank(mstg[j].dataquality)

\* The high-priority trace of the pair i < j by the documented rule: the
\* better quality, else the longer trace, else the earlier one.
HighPriority(i, j) ==
    IF QualityDecides(i, j)
      THEN IF QRank(mstg[i].dataquality) > QRank(mstg[j].dataquality) THEN i ELSE j
    ELSE IF TraceLen(mstg[j]) > TraceLen(mstg[i]) THEN j ELSE i

\* The rule does not rest on the order of the two traces.
StrictPriority(i, j) ==
    QualityDecides(i, j) \/ TraceLen(mstg[i]) # TraceLen(mstg[j])

\* The coverage of the surviving Records of trace h, as time segments.
Coverage(h) ==
    TimeSegments(records, mstg[h].private, 1, << >>, HpDelta(mstg[h].samprate))

\* The Record's [start, end] lies in the coverage of trace h.
Contained(r, h) ==
    \E k \in 1..Len(Coverage(h)) :
        /\ r.starttime >= Coverage(h)[k].starttime
        /\ r.endtime <= Coverage(h)[k].endtime

\* The sample times of the model's time grid.
GridTimes == {TimeOf(g) : g \in 0..(MaxStart + MaxCnt)}

\* The Record covers the time t with its effective window.
Covers(r, t) == r.reclen > 0 /\ EffStart(r) <= t /\ t <= EffEnd(r)

RECURSIVE Traversal(_, _)
\* The Record indexes of the first n traces, trace by trace and within each
\* trace from the first to the last Record of its RecordMap.
Traversal(g, n) == IF n = 0 THEN << >> ELSE Traversal(g, n - 1) \o g[n].private

\* The traversal up to, and without, the Record k of trace m.
TraversalBefore(g, m, k) == Traversal(g, m - 1) \o SubSeq(g[m].private, 1, k - 1)

Surviving(id) == records[id].reclen > 0

\* What the emitter can write of a traversal: the surviving Records that
\* trimrecord() did not fail on.
Writable(seq) == SelectSeq(seq, LAMBDA id : Surviving(id) /\ id \notin unpackfailed)

\* The traces of the group carry two qualities.
TwoQualities == Cardinality({mstg[t].dataquality : t \in TraceIds}) = 2

IsPrefix(a, b) == Len(a) <= Len(b) /\ SubSeq(b, 1, Len(a)) = a

(***************************************************************************)
(* C1: after record-level pruning no surviving Record of the low-priority  *)
(* trace of an overlapping pair lies in the coverage of the surviving      *)
(* Records of the high-priority trace.  Stated for the pairs whose         *)
(* priority does not rest on the order of the two traces.                  *)
(***************************************************************************)
C1_NoCoveredSurvivor ==
    (Pruned /\ prunedata = "r") =>
        \A i, j \in TraceIds :
            (i < j /\ Comparable(i, j) /\ StrictPriority(i, j)) =>
                LET hp == HighPriority(i, j)
                    lp == IF hp = i THEN j ELSE i
                IN  \A id \in Range(mstg[lp].private) :
                        Surviving(id) => ~ Contained(records[id], hp)

(***************************************************************************)
(* C2: after sample-level pruning of traces with two qualities no sample   *)
(* time is covered by the effective windows of more than one written       *)
(* Record.                                                                 *)
(***************************************************************************)
C2_NoDoubleCoverage ==
    (pc = "done" /\ prunedata = "s" /\ bestquality /\ TwoQualities) =>
        \A i, j \in 1..Len(written) :
            i < j => \A t \in GridTimes :
                ~ (Covers(records[written[i]], t) /\ Covers(records[written[j]], t))

(***************************************************************************)
(* C3: pruning of traces with two qualities never loses coverage: the      *)
(* times covered by the effective windows of the surviving Records are     *)
(* the times covered by the input Records.                                 *)
(***************************************************************************)
C3_CoveragePreserved ==
    (Pruned /\ prunedata # "0" /\ bestquality /\ TwoQualities) =>
        \A t \in GridTimes :
            (\E id \in RecordIds : records[id].starttime <= t /\ t <= records[id].endtime)
                <=> \E id \in RecordIds : Covers(records[id], t)

(***************************************************************************)
(* C4: every surviving Record has newstart, if set, strictly inside        *)
(* (start, end), newend, if set, strictly inside (start, end), and         *)
(* newstart < newend if both are set.                                      *)
(***************************************************************************)
C4_NewTimesInside ==
    \A id \in RecordIds :
        LET r == records[id] IN
        Surviving(id) =>
            /\ r.newstart # 0 => r.starttime < r.newstart /\ r.newstart < r.endtime
            /\ r.newend # 0 => r.starttime < r.newend /\ r.newend < r.endtime
            /\ (r.newstart # 0 /\ r.newend # 0) => r.newstart < r.newend

C6_DroppedIsTerminal ==
    /\ [][\A id \in RecordIds :
            ~ Surviving(id) => (id <= Len(records') /\ records'[id].reclen = 0)]_vars
    /\ [](\A k \in 1..Len(written) : Surviving(written[k]))
    /\ [](\A id \in RecordIds :
            ~ Surviving(id) => \E t \in TraceIds : id \in Range(mstg[t].private))

\* The emit loop has ended and has written a Record of a run with a dropped Record.
C6_Witness ==
    /\ pc = "done" /\ Len(written) >= 1
    /\ \E id \in RecordIds : ~ Surviving(id)

(***************************************************************************)
(* C7: when two overlapping traces differ in quality, trimtraces() is      *)
(* called with the better quality (Q > D > R) as the high-priority trace,  *)
(* whatever the lengths and the order of the two, and the comparison       *)
(* changes no Record outside the lower-quality trace; of two overlapping   *)
(* single Record traces with the same bounds only the better one is        *)
(* written.                                                                *)
(***************************************************************************)
C7_QualityWins ==
    /\ [][(pc = "prunetraces" /\ Comparable(mst, imst) /\ QualityDecides(mst, imst)) =>
            LET hi == HighPriority(mst, imst)
                lo == IF hi = mst THEN imst ELSE mst
            IN  /\ trimcall' = << lo, hi >>
                /\ \A id \in RecordIds :
                     id \notin Range(mstg[lo].private) => records'[id] = records[id]]_vars
    /\ []((/\ pc = "done" /\ ~ stopflag /\ Len(records) = 2 /\ Len(mstg) = 2
           /\ Comparable(1, 2) /\ QualityDecides(1, 2)
           /\ mstg[1].starttime = mstg[2].starttime
           /\ mstg[1].endtime = mstg[2].endtime)
          => written = mstg[HighPriority(1, 2)].private)

\* A comparison has just made the later, shorter but better trace the
\* high-priority one and has dropped a Record of the earlier trace.
C7_Witness ==
    /\ pc \in {"prunetraces", "writetraces"}
    /\ trimcall = << 1, 2 >>
    /\ QualityDecides(1, 2)
    /\ TraceLen(mstg[2]) < TraceLen(mstg[1])
    /\ \E id \in Range(mstg[1].private) : ~ Surviving(id)

(***************************************************************************)
(* C8: in every comparison made without looking at the quality (option     *)
(* off, or equal qualities) the trace with the longer bounding interval    *)
(* is the high-priority trace.                                             *)
(***************************************************************************)
C8_LongerWins ==
    (trimcall # << >> /\ ~ QualityDecides(trimcall[1], trimcall[2])) =>
        LET lp == mstg[trimcall[1]]
            hp == mstg[trimcall[2]]
        IN  TraceLen(lp) # TraceLen(hp) => TraceLen(hp) > TraceLen(lp)

(***************************************************************************)
(* C9: the record read last is dropped by the time window test if the      *)
(* prune mode is not sample and it starts before the window start or ends  *)
(* after the window end; it is not dropped by that test if it lies inside  *)
(* the window, nor in sample mode.                                         *)
(***************************************************************************)
C9_WindowTest ==
    (pc = "readfiles" /\ msr # << >>) =>
        LET s       == msr.starttime
            e       == msr_endtime(msr)
            outside == \/ starttime # HPTERROR /\ s < starttime
                       \/ endtime # HPTERROR /\ e > endtime
            inside  == /\ starttime # HPTERROR => s >= starttime
                       /\ endtime # HPTERROR => e <= endtime
            dropped == skipped \in {"starttime", "endtime"}
        IN  /\ (prunedata # "s" /\ outside) => dropped
            /\ inside => ~ dropped
            /\ prunedata = "s" => ~ dropped

(***************************************************************************)
(* C10: in sample prune mode the record read last, if it straddles the     *)
(* window start, is mapped with newstart at the window start and, if it    *)
(* straddles the window end, with newend at the window end.                *)
(***************************************************************************)
C10_WindowClip ==
    (pc = "readfiles" /\ msr # << >> /\ prunedata = "s") =>
        LET s == msr.starttime
            e == msr_endtime(msr)
        IN  /\ (starttime # HPTERROR /\ s < starttime /\ starttime < e) =>
                 (skipped = "" /\ records[Len(records)].newstart = starttime)
            /\ (endtime # HPTERROR /\ s < endtime /\ endtime < e) =>
                 (skipped = "" /\ records[Len(records)].newend = endtime)

\* The calendar boundaries of the split unit that lie after the start of the
\* record and before its end.
BoundariesOf(m) ==
    LET unit == SplitSeconds(splitboundary) * HPTMODULUS
    IN  {b \in {n * unit : n \in 0..(msr_endtime(m) \div unit)} :
            m.starttime < b /\ b < msr_endtime(m)}

RECURSIVE Ascending(_)
\* The numbers of a finite set in ascending order.
Ascending(S) ==
    IF S = {} THEN << >>
    ELSE LET x == CHOOSE y \in S : \A z \in S : y <= z
         IN  << x >> \o Ascending(S \ {x})

\* The times of a Record.
Times(r) ==
    [ starttime |-> r.starttime, endtime |-> r.endtime,
      newstart |-> r.newstart, newend |-> r.newend ]

\* The times of the descriptors a record is to be split into.
SplitPieces(m) ==
    LET bs == Ascending(BoundariesOf(m))
        k  == Len(bs)
    IN  [i \in 1..(k + 1) |->
           [ starttime |-> m.starttime, endtime |-> msr_endtime(m),
             newstart |-> IF i = 1 THEN 0 ELSE bs[i - 1],
             newend |-> IF i = k + 1 THEN 0 ELSE bs[i] - HpDelta(m.samprate) ]]

(***************************************************************************)
(* C11: when a split unit is set, reading and mapping a record whose end   *)
(* lies beyond k boundaries after its start leaves k+1 new descriptors at  *)
(* consecutive places of one RecordMap, in boundary order, descriptor i    *)
(* with newend = b_i - period (all but the last) and newstart = b_(i-1)    *)
(* (all but the first) and each with the times of the record, and adds     *)
(* exactly k to the split counter of the file.                             *)
(***************************************************************************)
C11_SplitDescriptors ==
    [][(pc = "readfiles" /\ nread' = nread + 1 /\ skipped' = "" /\ splitboundary # "0") =>
        LET pieces == SplitPieces(msr')
            k      == Len(pieces) - 1
        IN  /\ filelist'[flp].recsplitcount = filelist[flp].recsplitcount + k
            /\ \E t \in 1..Len(mstg') : \E j \in 1..Len(mstg'[t].private) :
                 /\ j + k <= Len(mstg'[t].private)
                 /\ \A i \in 1..(k + 1) :
                      LET id == mstg'[t].private[j + i - 1]
                      IN  id > Len(records) /\ Times(records'[id]) = pieces[i]]_vars

\* The sanity check for new start/end times of trimrecord() (lines 929-932).
SanityViolated(r) ==
    \/ r.newstart # 0 /\ r.newend # 0 /\ r.newstart >= r.newend
    \/ r.newstart # 0 /\ (r.newstart <= r.starttime \/ r.newstart >= r.endtime)
    \/ r.newend # 0 /\ (r.newend >= r.endtime \/ r.newend <= r.starttime)

\* The trace whose RecordMap holds the Record.
TraceOf(id) == CHOOSE t \in TraceIds : id \in Range(mstg[t].private)

\* The record as it is in its input file.
InputImage(id) == RecordImage(records[id], mstg[TraceOf(id)].samprate)

(***************************************************************************)
(* C12: a Record whose new times violate the sanity check of trimrecord()  *)
(* is written as it is in its input file: no sample removed, start time    *)
(* unchanged.                                                              *)
(***************************************************************************)
C12_SanityKeepsRecord ==
    \A k \in 1..Len(sink) :
        SanityViolated(records[written[k]]) => sink[k] = InputImage(written[k])

RECURSIVE BytesWritten(_, _, _)
\* The bytes of the first n Records written that come from file f, the
\* Records msr_pack() did not pack left out.
BytesWritten(f, w, n) ==
    IF n = 0 THEN 0
    ELSE BytesWritten(f, w, n - 1)
           + (IF records[w[n]].flp = f /\ w[n] \notin packfailed
                THEN records[w[n]].reclen ELSE 0)

(***************************************************************************)
(* C13: a Record that msr_pack() did not pack in trimrecord() is not       *)
(* written and does not count for the byteswritten of its file.            *)
(***************************************************************************)
C13_PackFailureSkips ==
    /\ \A id \in packfailed : \A k \in 1..Len(written) : written[k] # id
    /\ \A f \in DOMAIN filelist :
         filelist[f].byteswritten = BytesWritten(f, written, Len(written))

\* The Record the emit loop was at when it was stopped.
StoppedAt == mstg[mst].private[rec]

(***************************************************************************)
(* C14: when the emit loop has hit a failure to open, seek, read or write  *)
(* on the file of one Record, the surviving Records of the other input     *)
(* files are still written.                                                *)
(***************************************************************************)
C14_FailureAbortsOneFile ==
    (pc = "done" /\ stopflag /\ ~ BufferTooSmall(records[StoppedAt])) =>
        \A id \in Range(Traversal(mstg, Len(mstg))) :
            (/\ Surviving(id) /\ id \notin unpackfailed
             /\ records[id].flp # records[StoppedAt].flp)
                => id \in Range(written)

\* No input or output file of the file list is open.
AllClosed(fl) == \A f \in DOMAIN fl : ~ fl[f].infp /\ ~ fl[f].outfp

\* A Record with length > 0 and larger than the record buffer is in the sequence.
TooLargeIn(seq) ==
    \E id \in Range(seq) : Surviving(id) /\ records[id].reclen > RecordBufSize

(***************************************************************************)
(* C15: the emit loop never goes past a Record with length > 0 that is     *)
(* larger than the record buffer and never writes such a Record; when it   *)
(* has stopped at one, the Records written are those before it and every   *)
(* file is closed.                                                         *)
(***************************************************************************)
C15_BufferOverflowAborts ==
    /\ pc = "writetraces" => ~ TooLargeIn(TraversalBefore(mstg, mst, rec))
    /\ \A k \in 1..Len(written) : records[written[k]].reclen <= RecordBufSize
    /\ (pc = "done" /\ stopflag /\ records[StoppedAt].reclen > RecordBufSize)
          => (/\ written = Writable(TraversalBefore(mstg, mst, rec))
              /\ AllClosed(filelist))

\* The emit loop was stopped by a Record too large for the buffer after it
\* had written a Record and before a Record it could have written.
C15_Witness ==
    /\ pc = "done" /\ stopflag
    /\ records[StoppedAt].reclen > RecordBufSize
    /\ Len(written) >= 1
    /\ \E id \in Range(Traversal(mstg, Len(mstg))) :
         /\ id \notin Range(TraversalBefore(mstg, mst, rec))
         /\ id # StoppedAt
         /\ records[id].reclen = RecLen

(***************************************************************************)
(* C16: a file is unlinked only if replace-input and no-backups are both   *)
(* set, and what is removed is then the renamed .orig copy; if             *)
(* replace-input is not set no input file is ever unlinked.                *)
(***************************************************************************)
C16_UnlinkOnlyBackups ==
    /\ unlinked # {} => replaceinput /\ nobackups
    /\ \A u \in unlinked : u[2] = "orig"
    /\ ~ replaceinput => unlinked = {}

\* Every Record was read from the first file: the input is a single file.
SingleFile == \A id \in RecordIds : records[id].flp = 1

\* writetraces() went through both loops and no call failed.
EmitCompleted ==
    /\ pc = "done" /\ ~ stopflag /\ unpackfailed = {}
    /\ records = << >> \/ written # << >>

\* The records of the input, in the order in which they were read.
InputStream == [id \in RecordIds |-> InputImage(id)]

\* The reordered, split, trimmed and removed counters of every file are zero.
CountersZero ==
    \A f \in DOMAIN filelist :
        /\ filelist[f].reordercount = 0 /\ filelist[f].recsplitcount = 0
        /\ filelist[f].rectrimcount = 0 /\ filelist[f].recrmcount = 0

\* What was written is the input, record by record and in the order of the file.
RoundTrip ==
    /\ sink = InputStream
    /\ written = [id \in RecordIds |-> id]
    /\ CountersZero

\* Every record of the input starts after the end of the record before it.
InTimeOrder ==
    \A id \in RecordIds :
        id > 1 => records[id].starttime > records[id - 1].endtime

Descriptors == {id \in Range(Traversal(mstg, Len(mstg))) : Surviving(id)}

\* The bytes of the image were read where the Record says: its file, its
\* offset and its length.
BytesOf(img, id) ==
    /\ img.flp = records[id].flp
    /\ img.offset = records[id].offset
    /\ img.reclen = records[id].reclen

\* Every record written has the bytes of exactly one descriptor, the one it
\* was written for, and no descriptor was written twice.
FromOneDescriptor ==
    /\ Len(sink) = Len(written)
    /\ \A k \in 1..Len(written) :
         /\ written[k] \in Descriptors
         /\ \A id \in Descriptors : BytesOf(sink[k], id) <=> id = written[k]
    /\ \A j, k \in 1..Len(written) : written[j] = written[k] => j = k

ImageEnd(img) ==
    IF img.numsamples > 0
      THEN img.starttime + (img.numsamples - 1) * HpDelta(SampRate)
      ELSE img.starttime

\* The (start, end, quality) triples of the records written out.
Triples(s) == {<< s[k].starttime, ImageEnd(s[k]), s[k].quality >> : k \in DOMAIN s}

(***************************************************************************)
(* C19: the run on the same input files given in another order writes      *)
(* records with the same set of (start, end, quality) triples.             *)
(***************************************************************************)
C19_FileOrderIndependent ==
    (run = "permuted" /\ pc = "done") => Triples(sink) = Triples(firstrun.sink)

(***************************************************************************)
(* C20: the run with pruning on over the output of the first run drops no  *)
(* Record and sets no newstart and no newend.                              *)
(***************************************************************************)
C20_Idempotent ==
    run = "output" =>
        \A id \in RecordIds :
            /\ Surviving(id)
            /\ records[id].newstart = 0
            /\ records[id].newend = 0

(***************************************************************************)
(* C21: qcompare() is the order Q > D > R: -1 for (Q, D), (D, R) and       *)
(* (Q, R), 0 for equal qualities, and qcompare(x, y) = -qcompare(y, x),    *)
(* for the constants and for the qualities of any two traces of the group. *)
(***************************************************************************)
C21_QualityOrder ==
    /\ qcompare("Q", "D") = -1 /\ qcompare("D", "R") = -1 /\ qcompare("Q", "R") = -1
    /\ \A x, y \in AllQualities : qcompare(x, y) = -qcompare(y, x)
    /\ \A i, j \in TraceIds :
         LET x == mstg[i].dataquality
             y == mstg[j].dataquality
         IN  /\ x = y => qcompare(x, y) = 0
             /\ QRank(x) > QRank(y) => qcompare(x, y) = -1
             /\ QRank(x) < QRank(y) => qcompare(x, y) = 1
             /\ qcompare(x, y) = -qcompare(y, x)

\* Traces of the three qualities are in the group and prunetraces() has
\* compared the qualities of two overlapping traces.
C21_Witness ==
    /\ {mstg[t].dataquality : t \in TraceIds} = AllQualities
    /\ pc \in {"prunetraces", "writetraces"}
    /\ trimcall # << >>
    /\ priority = qcompare(mstg[trimcall[1]].dataquality, mstg[trimcall[2]].dataquality)

(***************************************************************************)
(* C22: when prunetraces() has compared two overlapping traces of the same *)
(* quality (or with -E) whose bounds have the same length, the trace    *)
(* that comes first in the group is the high-priority trace and the later  *)
(* one is the trace whose Records are dropped or trimmed.                  *)
(***************************************************************************)
C22_TiesToEarlier ==
    (pc \in {"prunetraces", "writetraces"} /\ trimcall # << >>) =>
        LET lp == mstg[trimcall[1]]
            hp == mstg[trimcall[2]]
        IN  (/\ ~ bestquality \/ lp.dataquality = hp.dataquality
             /\ TraceLen(lp) = TraceLen(hp))
                => trimcall[2] < trimcall[1]

\* The effective window of the Record holds the time t, end points included.
Crosses(r, t) == EffStart(r) <= t /\ t <= EffEnd(r)

\* The bounds of the trace hp that the effective windows of the Records ids
\* of file f hold, as pairs << Record, bound >>.
BoundsCrossed(ids, f, hp) ==
    {<< id, b >> \in ids \X {"start", "end"} :
        /\ records[id].flp = f
        /\ Crosses(records[id], IF b = "start" THEN hp.starttime ELSE hp.endtime)}

\* The Record is compared to the first segment of the coverage and is not
\* completely overlapped by it.
TrimmedAt(id, ts) ==
    /\ records[id].reclen # 0
    /\ ts # << >>
    /\ ~ (EffStart(records[id]) >= ts[1].starttime /\ EffEnd(records[id]) <= ts[1].endtime)

\* The new times a call of trimtraces() in sample prune mode has to leave on
\* the Records ids of the low-priority trace lp.
NewTimesAtBounds(ids, hp) ==
    \A id \in ids :
        /\ Crosses(records[id], hp.starttime)
              => records'[id].newend = hp.starttime - HpDelta(hp.samprate)
        /\ Crosses(records[id], hp.endtime)
              => records'[id].newstart = hp.endtime + HpDelta(hp.samprate)

SameChannel(i, j) ==
    /\ mstg[i].chan = mstg[j].chan
    /\ MS_ISRATETOLERABLE(mstg[i].samprate, mstg[j].samprate)

\* The high-priority trace of the two by the documented rule, whatever
\* their order in the group.
HighPriorityOf(i, j) == IF i < j THEN HighPriority(i, j) ELSE HighPriority(j, i)

\* The Record has no span: its start time is its end time.
ZeroSpan(r) == r.starttime = r.endtime

(***************************************************************************)
(* C24: after pruning with the qualities compared, a Record with no span   *)
(* of the low-priority trace of two traces of one channel whose instant    *)
(* lies in a coverage segment of the high-priority trace, end points       *)
(* included, has length 0.                                                 *)
(***************************************************************************)
C24_ZeroSpanDropped ==
    (Pruned /\ prunedata # "0" /\ bestquality) =>
        \A lp, hp \in TraceIds :
            (/\ lp # hp
             /\ SameChannel(lp, hp)
             /\ HighPriorityOf(lp, hp) = hp
             /\ IF lp < hp THEN StrictPriority(lp, hp) ELSE StrictPriority(hp, lp))
                => \A id \in Range(mstg[lp].private) :
                      (ZeroSpan(records[id]) /\ Contained(records[id], hp))
                          => ~ Surviving(id)

(***************************************************************************)
(* C25: the loop of the splitter ends for every record: readfiles() never  *)
(* stays in it, and a record that was mapped has one clone per boundary    *)
(* that lies strictly between its start and its end.                       *)
(***************************************************************************)
C25_SplitTerminates ==
    /\ [](pc # "splitting")
    /\ [][(pc = "readfiles" /\ records' # records) =>
            Len(records') - Len(records) = 1 + Cardinality(BoundariesOf(msr'))]_vars

\* The places of the Record in the RecordMaps of the group: trace and
\* position in the chain from first through next.
PlacesOf(id) ==
    {<< t, k >> \in TraceIds \X (1..Len(records)) :
        k <= Len(mstg[t].private) /\ mstg[t].private[k] = id}

(***************************************************************************)
(* C26: every Record created by readfiles(), those of the splitter         *)
(* included, is in exactly one RecordMap, at one place of its chain.       *)
(***************************************************************************)
C26_OneRecordMap ==
    \A id \in RecordIds : Cardinality(PlacesOf(id)) = 1

(***************************************************************************)
(* C27: at every point of indexing, and after it, every RecordMap is in    *)
(* time order: a Record does not start after the Record that follows it    *)
(* in the chain.                                                           *)
(***************************************************************************)
C27_RecordMapInTimeOrder ==
    \A t \in TraceIds :
        \A k \in 1..(Len(mstg[t].private) - 1) :
            records[mstg[t].private[k]].starttime
                <= records[mstg[t].private[k + 1]].starttime

\* round(diff / period) for a time difference that is not negative.
Round(diff, period) == (2 * diff + period) \div (2 * period)

\* The new times of the Record pass the sanity check of trimrecord().
SaneTimes(r) ==
    /\ r.newstart # 0 /\ r.newend # 0 => r.newstart < r.newend
    /\ r.newstart # 0 => r.newstart > r.starttime /\ r.newstart < r.endtime
    /\ r.newend # 0 => r.newend < r.endtime /\ r.newend > r.starttime

Identity(r) ==
    [ flp |-> r.flp, offset |-> r.offset, starttime |-> r.starttime,
      endtime |-> r.endtime, quality |-> r.quality ]

\* The fields of a Filelink other than the removed and trimmed counters.
FileFrame(l) ==
    [ infp |-> l.infp, outfp |-> l.outfp, reordercount |-> l.reordercount,
      recsplitcount |-> l.recsplitcount, byteswritten |-> l.byteswritten ]

(***************************************************************************)
(* C29: a step of the pruning pass leaves every Record its start, end,     *)
(* offset, file and quality and changes its length to 0 or not at all; it  *)
(* leaves the RecordMaps, the bounds of the traces and the order of the    *)
(* traces as they are, and changes nothing of a file but its removed and   *)
(* trimmed counters.                                                       *)
(***************************************************************************)
C29_PruneFrame ==
    [][ pc = "prunetraces" =>
          /\ Len(records') = Len(records)
          /\ \A id \in RecordIds :
                /\ Identity(records'[id]) = Identity(records[id])
                /\ records'[id].reclen \in {records[id].reclen, 0}
          /\ mstg' = mstg
          /\ \A f \in DOMAIN filelist :
                FileFrame(filelist'[f]) = FileFrame(filelist[f]) ]_vars

\* A pruning pass has ended that dropped a Record, set a new start and a
\* new end time, and counted both in the files.
C29_Witness ==
    /\ Pruned
    /\ trimcall # << >>
    /\ \E id \in RecordIds : records[id].reclen = 0
    /\ \E id \in RecordIds : records[id].newstart # 0
    /\ \E id \in RecordIds : records[id].newend # 0
    /\ \E f \in DOMAIN filelist : filelist[f].recrmcount > 0
    /\ \E f \in DOMAIN filelist : filelist[f].rectrimcount > 0

\* The Records of file f that are marked as dropped.
DroppedOf(f) == {id \in RecordIds : records[id].flp = f /\ records[id].reclen = 0}

(***************************************************************************)
(* C30: after a pruning pass the removed counter of every file is the      *)
(* number of Records of that file whose length is 0: a Record is counted   *)
(* when it is dropped and not again when another comparison covers it.     *)
(***************************************************************************)
C30_RemovedCount ==
    Pruned /\ run = "first" =>
        \A f \in DOMAIN filelist :
            filelist[f].recrmcount = Cardinality(DroppedOf(f))

====
